---- MODULE Spec2Model ----
(***************************************************************************)
(* Request dispatch and error containment of the Boxer server              *)
(* (server/main.py, Server.handle_request).                                *)
(*                                                                         *)
(* Text is a sequence of tokens.  A token is a one-character string, or a  *)
(* longer string standing for a run of characters that holds no newline.   *)
(* NL is the newline character.  Every conversion of the code (split,      *)
(* endswith, join, json.dumps, the %-formats) is computed on sequences.    *)
(***************************************************************************)
EXTENDS Integers, Sequences, FiniteSets, TLC

\* Number of requests the server receives in one run.
NumReq == 2

Requests == 1..NumReq

NL == "\n"

None == "None"

Str_json == <<".", "j", "s", "o", "n">>

Str_py == <<".", "p", "y">>

BOXER_VERSION == <<"0", ".", "1", ".", "0">>

----------------------------------------------------------------------------
(* Python string primitives, on sequences *)

\* str.endswith
EndsWith(s, suffix) ==
    /\ Len(s) >= Len(suffix)
    /\ SubSeq(s, Len(s) - Len(suffix) + 1, Len(s)) = suffix

\* s[:-n]
DropLast(s, n) == SubSeq(s, 1, Len(s) - n)

\* Index of the first sep in s at or after position i, 0 when there is none.
RECURSIVE FindFrom(_, _, _)
FindFrom(s, sep, i) ==
    IF i > Len(s) THEN 0
    ELSE IF s[i] = sep THEN i
    ELSE FindFrom(s, sep, i + 1)

\* str.split(sep) for a one-character sep: always at least one part.
RECURSIVE Split(_, _)
Split(s, sep) ==
    LET k == FindFrom(s, sep, 1) IN
    IF k = 0 THEN <<s>>
    ELSE <<SubSeq(s, 1, k - 1)>> \o Split(SubSeq(s, k + 1, Len(s)), sep)

\* sep.join(parts) for a one-character sep.
RECURSIVE Join(_, _)
Join(parts, sep) ==
    IF Len(parts) = 0 THEN <<>>
    ELSE IF Len(parts) = 1 THEN parts[1]
    ELSE parts[1] \o <<sep>> \o Join(Tail(parts), sep)

\* parts[-1]
Last(parts) == parts[Len(parts)]

----------------------------------------------------------------------------
(* Plugin registry *)

\* os.listdir("endpoints"): the files of the endpoint directory.
EndpointFiles ==
    { <<"r">> \o Str_py,
      <<"t">> \o Str_py,
      <<"_", "_", "p", "y", "c", "a", "c", "h", "e", "_", "_">> }

\* The handler entry a module's register() returns; the module is the entry's
\* identity.
Register(endpoint) == [module |-> endpoint]

\* self.handlers after the loading loop.
LoadEndpoints ==
    LET endpoints == { DropLast(f, 3) : f \in { g \in EndpointFiles : EndsWith(g, Str_py) } }
    IN [e \in endpoints |-> Register(e)]

\* A file of the endpoint directory: its name, and what importing it as a
\* module does: "registers" (it has register(), which returns the entry),
\* "no_register" (it has no register()), "import_fails" (importing it
\* raises), "register_raises" (its register() raises).
DirEntry(file, kind) == [file |-> file, kind |-> kind]

\* The endpoint directory of the server, in the order os.listdir gives it.
EndpointListing ==
    << DirEntry(<<"r">> \o Str_py, "registers"),
       DirEntry(<<"_", "_", "p", "y", "c", "a", "c", "h", "e", "_", "_">>, "no_register"),
       DirEntry(<<"t">> \o Str_py, "registers") >>

\* importlib.import_module raises.
ImportRaises(entry) == entry.kind = "import_fails"

\* hasattr(m, "register")
HasRegister(entry) == entry.kind \in {"registers", "register_raises"}

\* m.register(self) raises.
RegisterRaises(entry) == entry.kind = "register_raises"

\* One turn of the loading loop on self.handlers: the handlers after it, and
\* whether a fault left the loop.
LoadOne(loaded, entry) ==
    IF ~EndsWith(entry.file, Str_py)
    THEN [raises |-> FALSE, handlers |-> loaded]
    ELSE LET endpoint == DropLast(entry.file, 3) IN
         IF ImportRaises(entry)
         THEN [raises |-> TRUE, handlers |-> loaded]
         ELSE IF HasRegister(entry)
         THEN IF RegisterRaises(entry)
              THEN [raises |-> TRUE, handlers |-> loaded]
              ELSE [raises |-> FALSE,
                    handlers |-> [e \in (DOMAIN loaded) \cup {endpoint} |->
                                    IF e = endpoint THEN Register(endpoint) ELSE loaded[e]]]
         ELSE [raises |-> FALSE, handlers |-> loaded]

CanServeEarly(pending) == TRUE

\* Server.run is called when Server.__init__ has returned.
CanServe(pending) == Len(pending) = 0

----------------------------------------------------------------------------
(* Values *)

\* str(n) for a natural number n.
RECURSIVE Str(_)
Str(n) ==
    LET digit == <<"0", "1", "2", "3", "4", "5", "6", "7", "8", "9">>[(n % 10) + 1] IN
    IF n < 10 THEN <<digit>> ELSE Str(n \div 10) \o <<digit>>

\* A character outside ASCII (U+00E9), written as one token.
NonAscii == "U+00E9"

\* Number of bytes of a text in UTF-8: the one non-ASCII character of the
\* model takes two bytes.
RECURSIVE ByteLen(_)
ByteLen(text) ==
    IF Len(text) = 0 THEN 0
    ELSE (IF text[1] = NonAscii THEN 2 ELSE 1) + ByteLen(Tail(text))

\* dict[key] = value on a dict modelled as a function.
SetItem(d, key, value) ==
    [k \in (DOMAIN d) \cup {key} |-> IF k = key THEN value ELSE d[k]]

\* aiohttp.web.Response(headers=..., status=..., text=...)
Response(headers, status, text) ==
    [type |-> "Response", headers |-> headers, status |-> status, text |-> text]

\* isinstance(output, aiohttp.web.Response)
IsResponse(output) == output.type = "Response"

\* Python truth value of what a handler returned.  A Response is a mapping
\* and is false when it holds no items.
Truthy(output) ==
    CASE output.type = "NoneType" -> FALSE
      [] output.type = "dict"     -> Len(output.items) > 0
      [] output.type = "Response" -> output.nitems > 0

\* Whether json.dumps accepts the value: bytes are not JSON serializable.
Serializable(output) ==
    \A i \in 1..Len(output.items) : output.items[i].value.type # "bytes"

\* json.dumps of a string, ensure_ascii: a non-ASCII character is escaped.
RECURSIVE DumpsChars(_)
DumpsChars(chars) ==
    IF Len(chars) = 0 THEN <<>>
    ELSE (IF chars[1] = NonAscii THEN <<"\\", "u", "0", "0", "e", "9">> ELSE <<chars[1]>>)
         \o DumpsChars(Tail(chars))

DumpsStr(chars) == <<"\"">> \o DumpsChars(chars) \o <<"\"">>

DumpsValue(value) ==
    CASE value.type = "bool" -> value.chars
      [] value.type = "str"  -> DumpsStr(value.chars)

RECURSIVE DumpsItems(_)
DumpsItems(items) ==
    IF Len(items) = 0 THEN <<>>
    ELSE <<" ", " ">> \o DumpsStr(items[1].key) \o <<":", " ">> \o DumpsValue(items[1].value)
         \o (IF Len(items) > 1 THEN <<",", NL>> \o DumpsItems(Tail(items)) ELSE <<>>)

\* json.dumps(output, indent=2) of a non-empty dict.
JsonDumps(output) == <<"{", NL>> \o DumpsItems(output.items) \o <<NL, "}">>

----------------------------------------------------------------------------
(* Inputs: request paths and bodies, sessions, handler results and faults *)

Str_api == <<"/", "a", "p", "i", "/">>

\* request.path of the requests the clients send.
Paths ==
    { Str_api \o <<"r">>,
      Str_api \o <<"r">> \o Str_json,
      <<"/", "t">> \o Str_json,
      Str_api \o <<"R">>,
      Str_api \o <<"r", "t">>,
      Str_api \o <<"r">> \o Str_json \o Str_json }

\* Request bodies: one the body parser accepts, one it rejects.
Bodies == {"wellformed", "malformed"}

ValidationMessage == <<"Erroneous payload received">>

\* plugins.formdata.parse_formdata: the parsed fields, or ValueError.
ParseFormdata(body_type, body) ==
    IF body = "malformed"
    THEN [raises |-> "ValueError", message |-> ValidationMessage, indata |-> None]
    ELSE [raises |-> None, message |-> <<>>, indata |-> body_type]

\* plugins.session.get_session: a fresh session object for the request; the
\* storage handle is attached later, when the handler asks for it.
Sessions == [credentials : {None}, database : {None}]

NoSession == [credentials |-> None, database |-> "unbound"]

Bool(chars) == [type |-> "bool", chars |-> chars]

Chars(chars) == [type |-> "str", chars |-> chars]

Bytes == [type |-> "bytes", chars |-> <<>>]

Dict(items) == [type |-> "dict", items |-> items, nitems |-> Len(items)]

PyNone == [type |-> "NoneType", items |-> <<>>, nitems |-> 0]

\* A response object a handler built itself; nitems is the number of items
\* stored in it as a mapping.
RawResponse(status, text, nitems) ==
    [type |-> "Response", headers |-> [k \in {"Location"} |-> <<"/">>],
     status |-> status, text |-> text, nitems |-> nitems]

\* What Endpoint.exec may return.
HandlerOutputs ==
    { PyNone,
      Dict(<<>>),
      Dict(<<[key |-> <<"o">>, value |-> Bool(<<"f", "a", "l", "s", "e">>)],
             [key |-> <<"m">>, value |-> Chars(<<"n", NonAscii>>)]>>),
      Dict(<<[key |-> <<"m">>, value |-> Bytes]>>),
      RawResponse(302, <<>>, 0) }

\* A fault: the class it derives from, and traceback.format_exception of it,
\* one string per entry, each ending in a newline, some holding newlines
\* inside.
Fault(base, formatted) == [base |-> base, formatted |-> formatted]

\* What a handler may raise: an error of its own, or the cancellation of the
\* task (asyncio.CancelledError derives from BaseException).
HandlerFaults ==
    { Fault("Exception",
            << <<"Traceback (most recent call last):", NL>>,
               <<"  File repository.py, line 139, in process", NL, "    return", NL>>,
               <<"RuntimeError: secret", NL, "second line", NL>> >>),
      Fault("BaseException",
            << <<"Traceback (most recent call last):", NL>>,
               <<"asyncio.exceptions.CancelledError", NL>> >>) }

\* The fault json.dumps raises on a value it cannot encode.
DumpsFault ==
    Fault("Exception",
          << <<"Traceback (most recent call last):", NL>>,
             <<"  File main.py, line 107, in handle_request", NL,
               "    jsout = json.dumps(output, indent=2)", NL>>,
             <<"TypeError: Object of type bytes is not JSON serializable", NL>> >>)

\* What a failing release of the storage handle raises.
CleanupFault ==
    Fault("Exception",
          << <<"Traceback (most recent call last):", NL>>,
             <<"  File main.py, line 120, in handle_request", NL,
               "    session.database = None", NL>>,
             <<"RuntimeError: handle is busy", NL>> >>)

\* str(uuid.uuid4())[:18] of the n-th call: a value not drawn before.
Uuid4(n) == <<"uuid-" \o ToString(n)>>

----------------------------------------------------------------------------
(* The steps of handle_request *)

\* The response headers defined first.
Headers == [k \in {"Server"} |-> <<"ASF Infra Boxer Suite v/">> \o BOXER_VERSION]

RouteFormOnly(path) ==
    LET handler == Last(Split(path, "/")) IN
    IF EndsWith(handler, Str_json)
    THEN [body_type |-> "form", handler |-> DropLast(handler, 5)]
    ELSE [body_type |-> "form", handler |-> handler]

RouteSplitExt(path) ==
    LET parts == Split(Last(Split(path, "/")), ".") IN
    [body_type |-> IF Len(parts) > 1 THEN "json" ELSE "form", handler |-> parts[1]]

\* Who handles the request, and the format of its body.
Route(path) ==
    LET handler == Last(Split(path, "/")) IN
    IF EndsWith(handler, Str_json)
    THEN [body_type |-> "json", handler |-> DropLast(handler, 5)]
    ELSE [body_type |-> "form", handler |-> handler]

BadRequestAsServerError(message) == Response(Headers, 500, message)

\* The response to a body the parser rejected with ValueError e: str(e).
BadRequest(message) == Response(Headers, 400, message)

ReleaseNothing(session) == session

\* if session.database: session.database = None
ReleaseDatabase(session) ==
    IF session.database # None THEN [session EXCEPT !.database = None] ELSE session

\* Setting session.database raises: the handle refuses to be detached.
ReleaseRaises(session) == session.database = "faulty"

NoResponse == [type |-> "NoResponse"]

\* Content-Length of the JSON text.
ContentLength(jsout) == Str(Len(jsout))

SerializeEmptyFirst(output) ==
    LET headers == SetItem(Headers, "content-type", <<"application/json">>) IN
    IF ~Truthy(output)
    THEN [raises |-> FALSE, headers |-> headers,
          resp |-> Response(headers, 404, <<"Content not found">>)]
    ELSE IF IsResponse(output)
    THEN [raises |-> FALSE, headers |-> headers, resp |-> output]
    ELSE IF Serializable(output)
    THEN LET jsout == JsonDumps(output) IN
         [raises |-> FALSE, headers |-> headers,
          resp |-> Response(SetItem(headers, "Content-Length", ContentLength(jsout)),
                            200, jsout)]
    ELSE [raises |-> TRUE, headers |-> headers, resp |-> NoResponse]

\* From the handler's output to the response, or to the fault json.dumps
\* raises; headers are the headers as they are when the statement ends.
Serialize(output) ==
    LET headers == SetItem(Headers, "content-type", <<"application/json">>) IN
    IF Truthy(output) /\ ~IsResponse(output)
    THEN IF Serializable(output)
         THEN LET jsout == JsonDumps(output) IN
              [raises |-> FALSE, headers |-> headers,
               resp |-> Response(SetItem(headers, "Content-Length", ContentLength(jsout)),
                                 200, jsout)]
         ELSE [raises |-> TRUE, headers |-> headers, resp |-> NoResponse]
    ELSE IF IsResponse(output)
    THEN [raises |-> FALSE, headers |-> headers, resp |-> output]
    ELSE [raises |-> FALSE, headers |-> headers,
          resp |-> Response(headers, 404, <<"Content not found">>)]

CaughtException(fault) == fault.base = "Exception"

\* except: the bare clause catches every fault.
Caught(fault) == TRUE

DiscloseAlways(config_traceback) == TRUE

\* if self.config.server.traceback
Disclose(config_traceback) == config_traceback

ErrorTextOnly(fault) == Last(fault.formatted)

\* err: the formatted traceback joined by newlines.
ErrorText(fault) == Join(fault.formatted, NL)

\* The response that carries the traceback to the client.
DisclosedResponse(headers, err) ==
    Response(headers, 500, <<"API error occurred: ", NL>> \o err)

JournalMessage ==
    <<"API error occurred. The application journal will have information. Error ID: ">>

\* The response that carries the error id alone.
OpaqueResponse(headers, eid) == Response(headers, 500, JournalMessage \o eid)

\* The text of the first write to stderr.
JournalHeader(path, eid) ==
    <<"API Endpoint ">> \o path \o <<" got into trouble (">> \o eid \o <<"): ", NL>>

JournalLineSkipBlank(eid, line) ==
    IF line = <<>> THEN <<NL>> ELSE eid \o <<": ">> \o line \o <<NL>>

\* The text of the write for one traceback line.
JournalLine(eid, line) == eid \o <<": ">> \o line \o <<NL>>

JournalWritesNonBlank(path, eid, err) ==
    LET lines == SelectSeq(Split(err, NL), LAMBDA line : line # <<>>) IN
    <<JournalHeader(path, eid)>> \o [i \in 1..Len(lines) |-> JournalLine(eid, lines[i])]

\* The writes to sys.stderr for one fault, in order.
JournalWrites(path, eid, err) ==
    LET lines == Split(err, NL) IN
    <<JournalHeader(path, eid)>> \o [i \in 1..Len(lines) |-> JournalLine(eid, lines[i])]

\* The response to a request no handler is registered for.
NotFound == Response(Headers, 404, <<"API Endpoint not found!">>)

----------------------------------------------------------------------------
(* State *)

VARIABLES
    handlers,   \* self.handlers
    traceback,  \* self.config.server.traceback
    pc,         \* where each request's handle_request task stands
    task,       \* the request and the locals of its handle_request task
    stderr,     \* the writes to sys.stderr, in order, each with its request
    uuids,      \* number of uuid.uuid4() calls made
    startup,    \* the construction of the server: the endpoint directory, the
                \* files still to load, and "loading", "serving" or "aborted"
    handles,    \* the storage handles a handler may attach to its session
    world,      \* what the repository endpoint acts on: the directories of
                \* private projects and the repositories on disk
    proc        \* per request, the call of repository.process: the input
                \* fields, the await it stands at, and what it did so far

vars == <<handlers, traceback, pc, task, stderr, uuids, startup, handles, world, proc>>

\* What handle_request leaves alone.
ext == <<startup, handles, world, proc>>

IdleTask ==
    [path |-> <<>>, body |-> None, body_type |-> None, handler |-> <<>>,
     session |-> NoSession, invoked |-> <<>>, output |-> NoResponse,
     acquired |-> FALSE, fault |-> <<>>, eid |-> <<>>, resp |-> NoResponse]

\* No private project directory and no repository yet.
EmptyWorld == [pmc_dirs |-> {}, repos |-> {}]

\* No call of repository.process.
IdleProc == [at |-> "idle", indata |-> None, trace |-> <<>>]

\* self.handlers = dict()
NoHandlers == [e \in {} |-> Register(e)]

\* The state when the loading loop of Server.__init__ begins, for a given
\* endpoint directory.
Constructing(listing) ==
    /\ handlers = NoHandlers
    /\ traceback \in BOOLEAN
    /\ pc = [r \in Requests |-> "idle"]
    /\ task = [r \in Requests |-> IdleTask]
    /\ stderr = <<>>
    /\ uuids = 0
    /\ startup = [listing |-> listing, pending |-> listing, status |-> "loading"]
    /\ world = EmptyWorld
    /\ proc = [r \in Requests |-> IdleProc]

Init ==
    /\ Constructing(EndpointListing)
    /\ handles = {"db"}

\* The loading loop takes the next file of the endpoint directory; a fault
\* leaves Server.__init__ and the process ends.
LoadEndpoint ==
    /\ startup.status = "loading"
    /\ Len(startup.pending) > 0
    /\ LET loaded == LoadOne(handlers, Head(startup.pending)) IN
       IF loaded.raises
       THEN /\ startup' = [startup EXCEPT !.status = "aborted"]
            /\ UNCHANGED handlers
       ELSE /\ startup' = [startup EXCEPT !.pending = Tail(startup.pending)]
            /\ handlers' = loaded.handlers
    /\ UNCHANGED <<traceback, pc, task, stderr, uuids, handles, world, proc>>

\* Server.run: server_loop starts the site and requests are accepted.
Serve ==
    /\ startup.status = "loading"
    /\ CanServe(startup.pending)
    /\ startup' = [startup EXCEPT !.status = "serving"]
    /\ UNCHANGED <<handlers, traceback, pc, task, stderr, uuids, handles, world, proc>>

\* if handler in self.handlers
HasHandler(handler) == handler \in DOMAIN handlers

ResumableWhenNoneHangs(r) == \A q \in Requests : pc[q] # "hung"

\* The event loop can resume task r: every task is a coroutine of its own
\* that hands the thread back at each await, so a task that waits, however
\* long, holds back no other.
Resumable(r) == TRUE

\* A request arrives: the task is created and runs to its first suspension,
\* the await of parse_formdata.  Requests are numbered in order of arrival.
Accept(r) ==
    /\ startup.status = "serving"
    /\ pc[r] = "idle"
    /\ IF r = 1 THEN TRUE ELSE pc[r - 1] # "idle"
    /\ \E path \in Paths :
          LET route == Route(path) IN
          task' = [task EXCEPT ![r].path = path,
                               ![r].body_type = route.body_type,
                               ![r].handler = route.handler]
    /\ pc' = [pc EXCEPT ![r] = "parse"]
    /\ UNCHANGED <<handlers, traceback, stderr, uuids, ext>>

\* parse_formdata has read the body and ends: 400 on ValueError, 404 when no handler is registered
\* under the name, else the task awaits get_session.
Parsed(r) ==
    /\ pc[r] = "parse"
    /\ Resumable(r)
    /\ \E body \in Bodies :
          LET indata == ParseFormdata(task[r].body_type, body) IN
          IF indata.raises = "ValueError"
          THEN /\ task' = [task EXCEPT ![r].body = body,
                                       ![r].resp = BadRequest(indata.message)]
               /\ pc' = [pc EXCEPT ![r] = "done"]
          ELSE IF HasHandler(task[r].handler)
          THEN /\ task' = [task EXCEPT ![r].body = body]
               /\ pc' = [pc EXCEPT ![r] = "session"]
          ELSE /\ task' = [task EXCEPT ![r].body = body, ![r].resp = NotFound]
               /\ pc' = [pc EXCEPT ![r] = "done"]
    /\ UNCHANGED <<handlers, traceback, stderr, uuids, ext>>

\* self.handlers[handler]
HandlerFor(handler) == handlers[handler]

\* get_session ends and the handler is called; the task awaits it.
GetSession(r) ==
    /\ pc[r] = "session"
    /\ Resumable(r)
    /\ \E session \in Sessions :
          task' = [task EXCEPT ![r].session = session,
                               ![r].invoked = HandlerFor(task[r].handler).module]
    /\ pc' = [pc EXCEPT ![r] = "exec"]
    /\ UNCHANGED <<handlers, traceback, stderr, uuids, ext>>

\* The running handler attaches a storage handle to its session.
AttachDatabase(r) ==
    /\ pc[r] = "exec"
    /\ Resumable(r)
    /\ task[r].session.database = None
    /\ \E database \in handles :
          task' = [task EXCEPT ![r].session.database = database, ![r].acquired = TRUE]
    /\ UNCHANGED <<handlers, traceback, pc, stderr, uuids, ext>>

WriteApart(stream, r, writes) ==
    (IF Len(writes) = 0 THEN <<>> ELSE <<[request |-> r, text |-> writes[1]]>>)
    \o stream
    \o [i \in 1..(Len(writes) - 1) |-> [request |-> r, text |-> writes[i + 1]]]

\* The sys.stderr.write calls of one except block: no await stands between
\* them, so they reach the stream one after the other.
Write(stream, r, writes) ==
    stream \o [i \in 1..Len(writes) |-> [request |-> r, text |-> writes[i]]]

\* The locals of handle_request at a point inside the try statement.
Frame(session, output, headers) ==
    [session |-> session, output |-> output, headers |-> headers]

\* The except block, for a fault raised with the locals as in frame.
Contain(r, frame, fault) ==
    LET err == ErrorText(fault)
        session == ReleaseDatabase(frame.session)
        ended == [task EXCEPT ![r].session = session, ![r].output = frame.output,
                              ![r].fault = fault.formatted]
    IN IF Disclose(traceback)
       THEN /\ task' = [ended EXCEPT ![r].resp = DisclosedResponse(frame.headers, err)]
            /\ UNCHANGED <<stderr, uuids>>
       ELSE LET eid == Uuid4(uuids + 1)
                writes == JournalWrites(task[r].path, eid, err)
            IN /\ uuids' = uuids + 1
               /\ stderr' = Write(stderr, r, writes)
               /\ task' = [ended EXCEPT ![r].eid = eid,
                                        ![r].resp = OpaqueResponse(frame.headers, eid)]

\* The fault leaves handle_request uncaught: the task ends without a
\* response.
Propagate(r, frame, fault) ==
    /\ task' = [task EXCEPT ![r].session = frame.session, ![r].output = frame.output,
                            ![r].fault = fault.formatted]
    /\ pc' = [pc EXCEPT ![r] = "propagated"]
    /\ UNCHANGED <<stderr, uuids>>

\* A fault raised inside the try statement.  When the release that opens the
\* except block raises, its fault leaves the block and handle_request in
\* place of the report of the fault being handled.
Raise(r, frame, fault) ==
    IF Caught(fault)
    THEN IF ReleaseRaises(frame.session)
         THEN Propagate(r, frame, fault)
         ELSE Contain(r, frame, fault) /\ pc' = [pc EXCEPT ![r] = "done"]
    ELSE Propagate(r, frame, fault)

\* The handler raises.
HandlerRaises(r) ==
    /\ pc[r] = "exec"
    /\ Resumable(r)
    /\ \E fault \in HandlerFaults :
          Raise(r, Frame(task[r].session, NoResponse, Headers), fault)
    /\ UNCHANGED <<handlers, traceback, ext>>

\* The handler returned output: the storage handle is released and the
\* output is turned into the response; a fault of json.dumps goes to the
\* except block.
Return(r, output) ==
    LET session == ReleaseDatabase(task[r].session)
        out == Serialize(output)
    IN IF ReleaseRaises(task[r].session)
       THEN Raise(r, Frame(task[r].session, output, Headers), CleanupFault)
       ELSE IF out.raises
       THEN Raise(r, Frame(session, output, out.headers), DumpsFault)
       ELSE /\ task' = [task EXCEPT ![r].session = session,
                                    ![r].output = output, ![r].resp = out.resp]
            /\ pc' = [pc EXCEPT ![r] = "done"]
            /\ UNCHANGED <<stderr, uuids>>

\* The handler returns.
HandlerReturns(r) ==
    /\ pc[r] = "exec"
    /\ Resumable(r)
    /\ \E output \in HandlerOutputs : Return(r, output)
    /\ UNCHANGED <<handlers, traceback, ext>>

Next ==
    \/ LoadEndpoint
    \/ Serve
    \/ \E r \in Requests :
        \/ Accept(r)
        \/ Parsed(r)
        \/ GetSession(r)
        \/ AttachDatabase(r)
        \/ HandlerRaises(r)
        \/ HandlerReturns(r)

Spec == Init /\ [][Next]_vars

----------------------------------------------------------------------------
(* Handlers that never return, under the scheduling of the event loop *)

\* The handler of request r awaits something that never comes.
HandlerHangs(r) ==
    /\ pc[r] = "exec"
    /\ pc' = [pc EXCEPT ![r] = "hung"]
    /\ UNCHANGED <<handlers, traceback, task, stderr, uuids, ext>>

NextFair == Next \/ \E r \in Requests : HandlerHangs(r)

\* The event loop resumes every task that can go on: the form is parsed,
\* the session is given, and a handler that is not hung ends.  A handler
\* that raises or hangs has left the await as well, which disables
\* HandlerReturns; so its weak fairness says no more than that a task does
\* not stay at the await of a handler that can end.  No client is bound to
\* send a request.
Fairness ==
    /\ WF_vars(LoadEndpoint)
    /\ WF_vars(Serve)
    /\ \A r \in Requests :
        /\ WF_vars(Parsed(r))
        /\ WF_vars(GetSession(r))
        /\ WF_vars(HandlerReturns(r))

SpecFair == Init /\ [][NextFair]_vars /\ Fairness

----------------------------------------------------------------------------
(* Storage handles whose release can fail *)

InitCleanup ==
    /\ Constructing(EndpointListing)
    /\ handles = {"db", "faulty"}

SpecCleanup == InitCleanup /\ [][Next]_vars

----------------------------------------------------------------------------
(* Startup over any endpoint directory *)

MaxFiles == 2

Kinds == {"registers", "no_register", "import_fails", "register_raises"}

DirEntries == {DirEntry(file, kind) : file \in EndpointFiles, kind \in Kinds}

\* os.listdir("endpoints"): files of distinct names, in any order.
Listings ==
    {listing \in UNION {[1..n -> DirEntries] : n \in 0..MaxFiles} :
        \A i, j \in DOMAIN listing : listing[i].file = listing[j].file => i = j}

InitStartup ==
    /\ \E listing \in Listings : Constructing(listing)
    /\ handles = {"db"}

NextStartup == LoadEndpoint \/ Serve

SpecStartup == InitStartup /\ [][NextStartup]_vars

----------------------------------------------------------------------------
(* The repository endpoint (server/endpoints/repository.py) *)

Str_git == <<".", "g", "i", "t">>

Str_incubator == <<"i", "n", "c", "u", "b", "a", "t", "o", "r", "-">>

Str_board == <<"b", "o", "a", "r", "d">>

EXEC_ADDITIONAL_PROJECTS ==
    { Str_board,
      <<"m", "e", "m", "b", "e", "r", "s">>,
      <<"f", "o", "u", "n", "d", "a", "t", "i", "o", "n">> }

\* [a-z0-9]
LowerDigit ==
    { "a", "b", "c", "d", "e", "f", "g", "h", "i", "j", "k", "l", "m",
      "n", "o", "p", "q", "r", "s", "t", "u", "v", "w", "x", "y", "z",
      "0", "1", "2", "3", "4", "5", "6", "7", "8", "9" }

\* s is one or more characters of the class.
IsRun(s, class) == Len(s) > 0 /\ \A i \in 1..Len(s) : s[i] \in class

StartsWith(s, prefix) ==
    Len(s) >= Len(prefix) /\ SubSeq(s, 1, Len(prefix)) = prefix

\* \.git$ : the end of the string, or the newline that ends it.
EndsName(rest) == rest = Str_git \/ rest = Str_git \o <<NL>>

\* ([a-z0-9]+)(-[-0-9a-z]+)?\.git$ against s with group 1 of length n.
BodyMatches(s, n) ==
    /\ IsRun(SubSeq(s, 1, n), LowerDigit)
    /\ LET rest == SubSeq(s, n + 1, Len(s)) IN
       \/ EndsName(rest)
       \/ /\ Len(rest) > 0 /\ rest[1] = "-"
          /\ \E k \in 2..Len(rest) :
                /\ IsRun(SubSeq(rest, 2, k), LowerDigit \cup {"-"})
                /\ EndsName(SubSeq(rest, k + 1, Len(rest)))

\* The longest group 1 the pattern matches s with, 0 when it does not match.
Group1(s) ==
    LET lengths == {n \in 1..Len(s) : BodyMatches(s, n)} IN
    IF lengths = {} THEN 0 ELSE CHOOSE n \in lengths : \A m \in lengths : m <= n

\* re.match(r"^(?:incubator-)?([a-z0-9]+)(-[-0-9a-z]+)?\.git$", reponame):
\* whether it matches, and m.group(1).  The optional prefix is tried first.
ReMatch(reponame) ==
    LET stripped == SubSeq(reponame, Len(Str_incubator) + 1, Len(reponame)) IN
    IF StartsWith(reponame, Str_incubator) /\ Group1(stripped) > 0
    THEN [matched |-> TRUE, pmc |-> SubSeq(stripped, 1, Group1(stripped))]
    ELSE IF Group1(reponame) > 0
    THEN [matched |-> TRUE, pmc |-> SubSeq(reponame, 1, Group1(reponame))]
    ELSE [matched |-> FALSE, pmc |-> <<>>]

\* session.credentials: absent, or a uid with its flags.
Credentials(uid, admin, member) == [uid |-> uid, admin |-> admin, member |-> member]

NoCredentials == Credentials(None, FALSE, FALSE)

HasCredentialsAlways(credentials) == TRUE

\* the truth value of session.credentials
HasCredentials(credentials) == credentials.uid # None

\* The sessions of the callers: none logged in, an admin, a member of the
\* foundation, a committer.
RepoSessions ==
    [credentials : { NoCredentials,
                     Credentials("root", TRUE, TRUE),
                     Credentials("mem", FALSE, TRUE),
                     Credentials("dev", FALSE, FALSE) },
     database : {None}]

\* The repository names the callers send.
RepoNames ==
    { <<"p">> \o Str_git,
      Str_board \o Str_git,
      <<"P">> \o Str_git }

\* indata: the fields process reads.  A request that is not a creation
\* carries the other fields too, but nothing reads them.
Indata ==
    { d \in [action : {"create", "delete", None}, repository : RepoNames, private : BOOLEAN] :
        d.action # "create" => (d.repository = <<"p">> \o Str_git /\ ~d.private) }

\* lc.get_members(pmc): the PMC list LDAP holds for the project.
PmcMembers(pmc) == IF pmc = <<"p">> THEN {"dev"} ELSE {}

IsCreateAny(action) == TRUE

\* action == "create"
IsCreate(action) == action = "create"

NeedsLdapNever(credentials, pmc) == FALSE

\* not session.credentials.admin and
\* not (session.credentials.member and pmc in EXEC_ADDITIONAL_PROJECTS)
NeedsLdap(credentials, pmc) ==
    ~credentials.admin /\ ~(credentials.member /\ pmc \in EXEC_ADDITIONAL_PROJECTS)

\* os.path.join(server.config.repos.public, reponame) and
\* os.path.join(server.config.repos.private, pmc, reponame)
RepoPath(private, pmc, reponame) ==
    IF private THEN [root |-> "private", pmc |-> pmc, reponame |-> reponame]
    ELSE [root |-> "public", pmc |-> <<>>, reponame |-> reponame]

\* {"okay": ..., "message": ...}
Okay(okay, message) ==
    Dict(<<[key |-> <<"okay">>, value |-> Bool(IF okay THEN <<"true">> ELSE <<"false">>)],
           [key |-> <<"message">>, value |-> Chars(message)]>>)

NotLoggedIn == Okay(FALSE, <<"You need to be logged in to access this end point">>)

InvalidName == Okay(FALSE, <<"Invalid repository name specified">>)

InvalidPrefix(pmc) ==
    Okay(FALSE, <<"Invalid project prefix '">> \o pmc \o <<"' specified">>)

OnlyPmcMembers ==
    Okay(FALSE, <<"Only (I)PMC members of this project may create repositories">>)

AlreadyExists == Okay(FALSE, <<"A repository by that name already exists">>)

OnlyStaff ==
    Okay(FALSE, <<"Private repositories can only be created by Infrastructure staff">>)

\* rv: the text GitHub answers a refused creation with.
Refused == Okay(FALSE, <<"{\"message\": \"Repository creation failed.\"}">>)

\* str(stderr) of the failed clone.
CloneFailed == Okay(FALSE, <<"b'fatal: could not clone'">>)

Created == Okay(TRUE, <<"Repository created!">>)

\* stderr.encode("utf-8") on the bytes communicate() returned.
EncodeFault ==
    Fault("Exception",
          << <<"Traceback (most recent call last):", NL>>,
             <<"  File repository.py, line 139, in process", NL,
               "    return {\"okay\": False, ...}", NL>>,
             <<"AttributeError: 'bytes' object has no attribute 'encode'", NL>> >>)

\* Where a stretch of process that runs without an await leaves the call: at
\* an await, or at its end with a result or a fault; the world and what was
\* done so far.
Await(at, w, trace) ==
    [at |-> at, world |-> w, trace |-> trace, raises |-> FALSE, result |-> PyNone]

End(w, trace, result) ==
    [at |-> "end", world |-> w, trace |-> trace, raises |-> FALSE, result |-> result]

Faulted(w, trace) ==
    [at |-> "end", world |-> w, trace |-> trace, raises |-> TRUE, result |-> PyNone]

\* The answer an awaited call or process came back with, as an entry of the
\* trace.
Answer(what, value) == what \o ":" \o ToString(value)

\* Lines 145-153: the private gitweb configuration is written and GitHub is
\* asked to create the repository.
CreateRepo(w, d, trace) ==
    Await("github", w,
          trace \o (IF d.private THEN <<"write_conf">> ELSE <<>>) \o <<"github">>)

\* Lines 141-142 and on: the second look for the repository.
LookAgain(w, d, trace) ==
    LET pmc == ReMatch(d.repository).pmc IN
    IF RepoPath(TRUE, pmc, d.repository) \in w.repos
    THEN End(w, trace, AlreadyExists)
    ELSE CreateRepo(w, d, trace)

\* Lines 90-139: the look for the repository, and for a private one the
\* project directory with its access files.
Locate(w, c, d, trace) ==
    LET pmc == ReMatch(d.repository).pmc IN
    IF ~d.private
    THEN IF RepoPath(FALSE, pmc, d.repository) \in w.repos
         THEN End(w, trace, AlreadyExists)
         ELSE CreateRepo(w, d, trace)
    ELSE IF ~c.admin
    THEN End(w, trace, OnlyStaff)
    ELSE IF pmc \notin w.pmc_dirs
    THEN Await("reload", [w EXCEPT !.pmc_dirs = @ \cup {pmc}],
               trace \o <<"mkdir", "write_gitweb", "write_htaccess", "reload">>)
    ELSE LookAgain(w, d, trace)

\* Lines 68-84: from the call to the LDAP lookup.
Enter(w, c, d) ==
    IF ~HasCredentials(c) THEN End(w, <<>>, NotLoggedIn)
    ELSE IF ~IsCreate(d.action) THEN End(w, <<>>, PyNone)
    ELSE LET m == ReMatch(d.repository) IN
         IF ~m.matched THEN End(w, <<>>, InvalidName)
         ELSE IF NeedsLdap(c, m.pmc) THEN Await("ldap", w, <<"ldap">>)
         ELSE Locate(w, c, d, <<>>)

\* Lines 85-89: the PMC list is back.
AfterLdap(w, c, d, trace) ==
    LET pmc == ReMatch(d.repository).pmc
        pmc_list == PmcMembers(pmc)
    IN IF pmc_list = {} THEN End(w, trace, InvalidPrefix(pmc))
       ELSE IF c.uid \notin pmc_list THEN End(w, trace, OnlyPmcMembers)
       ELSE Locate(w, c, d, trace)

\* Lines 137-142: the reload of Apache ended.
AfterReload(w, d, trace, returncode) ==
    LET answered == trace \o <<Answer("reload", returncode)>> IN
    IF returncode # 0 THEN Faulted(w, answered)
    ELSE LookAgain(w, d, answered)

\* rv.status == 201
IsCreated(status) == status = 201

\* Lines 153-160 and 176-177: GitHub answered.
AfterGithub(w, d, trace, status) ==
    LET answered == trace \o <<Answer("github", status)>> IN
    IF IsCreated(status) THEN Await("clone", w, answered \o <<"clone">>)
    ELSE End(w, answered, Refused)

ClonedAlways(returncode) == TRUE

\* proc.returncode == 0
IsCloned(returncode) == returncode = 0

\* Lines 160-175: gitbox-clone ended; when it succeeded the repository is on
\* disk.
AfterClone(w, d, trace, returncode) ==
    LET answered == trace \o <<Answer("clone", returncode)>>
        repo_path == RepoPath(d.private, ReMatch(d.repository).pmc, d.repository)
        cloned == IF returncode = 0 THEN [w EXCEPT !.repos = @ \cup {repo_path}] ELSE w
    IN IF IsCloned(returncode)
       THEN End(cloned, answered \o <<"config", "mail">>, Created)
       ELSE End(cloned, answered, CloneFailed)

\* A request for the repository endpoint arrives and its form is parsed.
Call(r) ==
    /\ startup.status = "serving"
    /\ pc[r] = "idle"
    /\ IF r = 1 THEN TRUE ELSE pc[r - 1] # "idle"
    /\ \E d \in Indata :
          proc' = [proc EXCEPT ![r] = [at |-> "start", indata |-> d, trace |-> <<>>]]
    /\ task' = [task EXCEPT ![r].path = Str_api \o <<"r">>,
                            ![r].body = "wellformed",
                            ![r].handler = Route(Str_api \o <<"r">>).handler]
    /\ pc' = [pc EXCEPT ![r] = "session"]
    /\ UNCHANGED <<handlers, traceback, stderr, uuids, startup, handles, world>>

\* process ran up to an await, or to its end: there handle_request goes on
\* to the response without an await of its own.
Ran(r, session, out) ==
    /\ world' = out.world
    /\ proc' = [proc EXCEPT ![r].at = out.at, ![r].trace = out.trace]
    /\ IF out.at = "end"
       THEN IF out.raises
            THEN Raise(r, Frame(session, NoResponse, Headers), EncodeFault)
            ELSE Return(r, out.result)
       ELSE UNCHANGED <<pc, task, stderr, uuids>>
    /\ UNCHANGED <<handlers, traceback, startup, handles>>

\* get_session ends and process is called: it runs to its first await.  A
\* result it returns before any await is a dict of strings or None, which
\* json.dumps takes, and the fresh session holds no storage handle.
Begin(r) ==
    /\ pc[r] = "session"
    /\ proc[r].at = "start"
    /\ Resumable(r)
    /\ \E session \in RepoSessions :
          LET out == Enter(world, session.credentials, proc[r].indata) IN
          /\ world' = out.world
          /\ proc' = [proc EXCEPT ![r].at = out.at, ![r].trace = out.trace]
          /\ LET called == [task EXCEPT ![r].session = session,
                                        ![r].invoked = HandlerFor(task[r].handler).module]
             IN IF out.at = "end"
                THEN LET served == Serialize(out.result) IN
                     /\ task' = [called EXCEPT ![r].output = out.result,
                                               ![r].resp = served.resp]
                     /\ pc' = [pc EXCEPT ![r] = "done"]
                ELSE /\ task' = called
                     /\ pc' = [pc EXCEPT ![r] = "exec"]
    /\ UNCHANGED <<handlers, traceback, stderr, uuids, startup, handles>>

\* LDAP answers with the PMC list.
LdapAnswers(r) ==
    /\ pc[r] = "exec"
    /\ proc[r].at = "ldap"
    /\ Resumable(r)
    /\ Ran(r, task[r].session,
           AfterLdap(world, task[r].session.credentials, proc[r].indata, proc[r].trace))

\* The reload of Apache ends.
ReloadEnds(r) ==
    /\ pc[r] = "exec"
    /\ proc[r].at = "reload"
    /\ Resumable(r)
    /\ \E returncode \in {0, 1} :
          Ran(r, task[r].session,
              AfterReload(world, proc[r].indata, proc[r].trace, returncode))

\* GitHub answers the creation.
GithubAnswers(r) ==
    /\ pc[r] = "exec"
    /\ proc[r].at = "github"
    /\ Resumable(r)
    /\ \E status \in {201, 422} :
          Ran(r, task[r].session,
              AfterGithub(world, proc[r].indata, proc[r].trace, status))

\* gitbox-clone ends.
CloneEnds(r) ==
    /\ pc[r] = "exec"
    /\ proc[r].at = "clone"
    /\ Resumable(r)
    /\ \E returncode \in {0, 1} :
          Ran(r, task[r].session,
              AfterClone(world, proc[r].indata, proc[r].trace, returncode))

NextRepo ==
    \/ LoadEndpoint
    \/ Serve
    \/ \E r \in Requests :
        \/ Call(r)
        \/ Begin(r)
        \/ LdapAnswers(r)
        \/ ReloadEnds(r)
        \/ GithubAnswers(r)
        \/ CloneEnds(r)

SpecRepo == Init /\ [][NextRepo]_vars

----------------------------------------------------------------------------
(* Vocabulary of the properties *)

\* handle_request has returned the response of request r.
Done(r) == pc[r] = "done"

\* The handler of request r was called.
Invoked(r) == task[r].invoked # <<>>

\* The handler invocation of request r raised and the fault was reported.
Failed(r) == Done(r) /\ task[r].fault # <<>>

\* The texts written to stderr for request r, in order.
RECURSIVE TextsOf(_, _)
TextsOf(writes, r) ==
    IF Len(writes) = 0 THEN <<>>
    ELSE (IF writes[1].request = r THEN <<writes[1].text>> ELSE <<>>)
         \o TextsOf(Tail(writes), r)

RECURSIVE Concat(_)
Concat(texts) == IF Len(texts) = 0 THEN <<>> ELSE texts[1] \o Concat(Tail(texts))

\* The lines written to stderr for request r: what the newlines of the
\* written text delimit.
LinesOf(r) ==
    LET text == Concat(TextsOf(stderr, r)) IN
    IF Len(text) = 0 THEN <<>>
    ELSE LET parts == Split(text, NL) IN
         IF Last(parts) = <<>> THEN DropLast(parts, 1) ELSE parts

\* The tokens of a text.
Tokens(text) == { text[i] : i \in 1..Len(text) }

\* The path ends in a segment that is a registered name or a registered name
\* followed by .json.
RegisteredPath(path) ==
    \E n \in DOMAIN handlers :
        \/ EndsWith(path, <<"/">> \o n)
        \/ EndsWith(path, <<"/">> \o n \o Str_json)

\* text holds every entry, whole and in order, from position from on.
RECURSIVE HoldsInOrder(_, _, _)
HoldsInOrder(text, entries, from) ==
    IF Len(entries) = 0 THEN TRUE
    ELSE \E p \in from..(Len(text) - Len(entries[1]) + 1) :
            /\ SubSeq(text, p, p + Len(entries[1]) - 1) = entries[1]
            /\ HoldsInOrder(text, Tail(entries), p + Len(entries[1]))

----------------------------------------------------------------------------
(* Properties *)

\* C1: a request whose handler invocation raised while traceback disclosure
\* is disabled is answered with status 500 and a body that is the fixed
\* message followed by the error id and nothing else: no token of the
\* traceback, of the exception message or of the request path is in it.
C1_OpaqueBody ==
    \A r \in Requests :
        (Failed(r) /\ ~traceback) =>
            /\ task[r].resp.status = 500
            /\ task[r].resp.text = JournalMessage \o task[r].eid
            /\ Len(task[r].eid) = 1
            /\ Tokens(task[r].resp.text) \cap
                   (Tokens(Concat(task[r].fault)) \cup Tokens(task[r].path)) = {}

C1_Witness ==
    \E r \in Requests :
        /\ Failed(r) /\ ~traceback
        /\ "RuntimeError: secret" \in Tokens(Concat(task[r].fault))
        /\ task[r].resp.status = 500

\* The error id the response of request r carries.
ResponseId(r) == Last(task[r].resp.text)

\* C2 as stated: for a request whose handler invocation raised while
\* disclosure is disabled, lines are written to stderr and every one of them
\* begins with the error id of the response.
C2_EveryLinePrefixed ==
    \A r \in Requests :
        (Failed(r) /\ ~traceback) =>
            LET lines == LinesOf(r) IN
            /\ Len(lines) >= 1
            /\ \A i \in 1..Len(lines) :
                   Len(lines[i]) >= 1 /\ lines[i][1] = ResponseId(r)

\* C2 amended: for such a request one block is written to stderr: it opens
\* with the one header line "API Endpoint <path> got into trouble (<id>): ",
\* which holds the error id of the response without beginning with it, and
\* every line after the header begins with that error id.
C2_JournalBlock ==
    \A r \in Requests :
        (Failed(r) /\ ~traceback) =>
            LET lines == LinesOf(r) IN
            /\ Len(lines) >= 2
            /\ lines[1][1] = "API Endpoint "
            /\ ResponseId(r) \in Tokens(lines[1])
            /\ \A i \in 2..Len(lines) :
                   /\ Len(lines[i]) >= 1
                   /\ lines[i][1] = ResponseId(r)
                   /\ lines[i][1] # "API Endpoint "

C2_Witness ==
    \E r \in Requests :
        /\ Failed(r) /\ ~traceback
        /\ Len(LinesOf(r)) >= 2
        /\ LinesOf(r)[2][1] = ResponseId(r)

\* C3: a request routed to a registered handler never leaves handle_request
\* by a fault: it ends with a response, and with status 500 when the handler
\* invocation raised, the fault of json.dumps included.
C3_Contained ==
    \A r \in Requests :
        /\ pc[r] # "propagated"
        /\ (Done(r) /\ Invoked(r)) =>
               /\ task[r].resp.type = "Response"
               /\ task[r].fault # <<>> => task[r].resp.status = 500

C3_Witness ==
    \E r1, r2 \in Requests :
        /\ Done(r1) /\ task[r1].fault = DumpsFault.formatted
        /\ task[r1].resp.status = 500
        /\ Done(r2) /\ "asyncio.exceptions.CancelledError" \in Tokens(Concat(task[r2].fault))
        /\ task[r2].resp.status = 500

\* C4: when handle_request has ended for a request whose session was
\* obtained, the session holds no storage handle, on every exit path.
C4_Released ==
    \A r \in Requests :
        (pc[r] \in {"done", "propagated"} /\ Invoked(r)) =>
            task[r].session.database = None

C4_Witness ==
    \E r1, r2 \in Requests :
        /\ r1 # r2
        /\ Done(r1) /\ task[r1].acquired /\ task[r1].fault = DumpsFault.formatted
        /\ Done(r2) /\ task[r2].acquired /\ task[r2].fault = <<>>
        /\ task[r1].session.database = None /\ task[r2].session.database = None

\* C5 as stated: a request whose path is not a registered one is answered
\* 404 "API Endpoint not found!" whatever its body, no handler is called and
\* nothing is written to stderr.
C5_NotFoundWhateverBody ==
    \A r \in Requests :
        (Done(r) /\ ~RegisteredPath(task[r].path)) =>
            /\ task[r].resp.status = 404
            /\ task[r].resp.text = <<"API Endpoint not found!">>
            /\ ~Invoked(r)
            /\ TextsOf(stderr, r) = <<>>

\* C5 amended: a request whose path is not a registered one is answered 404
\* "API Endpoint not found!" when the body parser accepts its body, and 400
\* with the validation message when the parser rejects it; in both cases no
\* handler is called, no session is obtained and nothing is written to
\* stderr.
C5_NotFound ==
    \A r \in Requests :
        (pc[r] # "idle" /\ ~RegisteredPath(task[r].path)) =>
            /\ pc[r] \in {"parse", "done"}
            /\ ~Invoked(r)
            /\ task[r].session = NoSession
            /\ TextsOf(stderr, r) = <<>>
            /\ Done(r) =>
                   IF task[r].body = "malformed"
                   THEN /\ task[r].resp.status = 400
                        /\ task[r].resp.text = ValidationMessage
                   ELSE /\ task[r].resp.status = 404
                        /\ task[r].resp.text = <<"API Endpoint not found!">>

C5_Witness ==
    \E r1, r2 \in Requests :
        /\ Done(r1) /\ task[r1].path = Str_api \o <<"r">> \o Str_json \o Str_json
        /\ task[r1].resp.status = 404
        /\ Done(r2) /\ task[r2].path = Str_api \o <<"R">>
        /\ task[r2].resp.status = 400

\* C6: for a registered name n, a path ending in /n is routed to the entry
\* registered under n with body format form, and a path ending in /n.json
\* to the same entry with body format json; a handler is called only for a
\* path whose last segment is exactly a registered name or one followed by
\* .json, and the entry called is the one registered under that name.
C6_Routing ==
    \A r \in Requests :
        pc[r] # "idle" =>
            /\ \A n \in DOMAIN handlers :
                 /\ EndsWith(task[r].path, <<"/">> \o n) =>
                        /\ task[r].body_type = "form"
                        /\ task[r].handler = n
                        /\ Invoked(r) => task[r].invoked = handlers[n].module
                 /\ EndsWith(task[r].path, <<"/">> \o n \o Str_json) =>
                        /\ task[r].body_type = "json"
                        /\ task[r].handler = n
                        /\ Invoked(r) => task[r].invoked = handlers[n].module
            /\ Invoked(r) => RegisteredPath(task[r].path)
            /\ (Done(r) /\ RegisteredPath(task[r].path) /\ task[r].body = "wellformed")
                   => Invoked(r)

C6_Witness ==
    \E r1, r2 \in Requests :
        /\ task[r1].path = Str_api \o <<"r">> /\ task[r1].body_type = "form"
        /\ task[r2].path = Str_api \o <<"r">> \o Str_json /\ task[r2].body_type = "json"
        /\ Invoked(r1) /\ Invoked(r2)
        /\ task[r1].invoked = <<"r">> /\ task[r2].invoked = <<"r">>

\* C7: a request whose handler invocation raised while traceback disclosure
\* is enabled is answered with status 500 and a body that holds every entry
\* of the traceback, whole and in order, and nothing is written to stderr
\* and no error id is drawn for it.
C7_Disclosed ==
    \A r \in Requests :
        (Failed(r) /\ traceback) =>
            /\ task[r].resp.status = 500
            /\ task[r].resp.text[1] = "API error occurred: "
            /\ HoldsInOrder(task[r].resp.text, task[r].fault, 1)
            /\ TextsOf(stderr, r) = <<>>
            /\ task[r].eid = <<>>

C7_Witness ==
    \E r \in Requests :
        /\ Failed(r) /\ traceback
        /\ "second line" \in Tokens(task[r].resp.text)
        /\ stderr = <<>>

\* The traceback lines of a response body that discloses the traceback: the
\* text after the opening "API error occurred: " line.
DisclosedLines(text) == Split(SubSeq(text, 3, Len(text)), NL)

\* The traceback lines of the lines written to stderr: the lines that begin
\* with the error id, without the id and the ": " after it.
JournalledLines(lines, id) ==
    LET prefixed == SelectSeq(lines, LAMBDA line : Len(line) >= 2 /\ line[1] = id) IN
    [i \in 1..Len(prefixed) |-> SubSeq(prefixed[i], 3, Len(prefixed[i]))]

\* The lines of a sequence of writes.
WrittenLines(writes) ==
    LET parts == Split(Concat(writes), NL) IN
    IF Last(parts) = <<>> THEN DropLast(parts, 1) ELSE parts

Returned(r) == Done(r) /\ task[r].output # NoResponse

\* C9 as stated: whatever a handler returns, the response is the handler's
\* own response object unchanged, or status 200 with the JSON encoding of a
\* non-empty value and its length as Content-Length, or status 404 "Content
\* not found" for an empty or absent value.
C9_ThreeCases ==
    \A r \in Requests :
        Returned(r) =>
            LET output == task[r].output
                resp == task[r].resp
            IN CASE output.type = "Response" -> resp = output
                 [] output.type = "dict" /\ Len(output.items) > 0 ->
                        /\ resp.status = 200
                        /\ resp.text = JsonDumps(output)
                        /\ resp.headers["Content-Length"] = Str(ByteLen(resp.text))
                 [] OTHER ->
                        /\ resp.status = 404
                        /\ resp.text = <<"Content not found">>

\* C9 amended: the three cases hold for a response object, for a non-empty
\* value json.dumps can encode and for an empty or absent value; a non-empty
\* value json.dumps cannot encode is answered with status 500 by the except
\* block.
C9_Serialized ==
    \A r \in Requests :
        Returned(r) =>
            LET output == task[r].output
                resp == task[r].resp
            IN CASE output.type = "Response" -> resp = output
                 [] output.type = "dict" /\ Len(output.items) > 0 ->
                        IF Serializable(output)
                        THEN /\ resp.status = 200
                             /\ resp.text = JsonDumps(output)
                             /\ resp.text[1] = "{" /\ Last(resp.text) = "}"
                             /\ resp.headers["Content-Length"] = Str(ByteLen(resp.text))
                             /\ task[r].fault = <<>>
                        ELSE /\ resp.status = 500
                             /\ task[r].fault = DumpsFault.formatted
                 [] OTHER ->
                        /\ resp.status = 404
                        /\ resp.text = <<"Content not found">>

C9_Witness ==
    \E r1, r2 \in Requests :
        /\ Returned(r1) /\ task[r1].output.type = "Response"
        /\ ~Truthy(task[r1].output) /\ task[r1].resp.status = 302
        /\ Returned(r2) /\ task[r2].resp.status = 200
        /\ NonAscii \in Tokens(Concat([i \in 1..Len(task[r2].output.items) |->
                                          task[r2].output.items[i].value.chars]))

\* C10: a request whose body the parser rejects is answered 400 with the
\* validation message, with disclosure enabled and with it disabled alike;
\* no handler is called, no session is obtained, no error id is drawn and
\* nothing is written to stderr for it.
C10_BadRequest ==
    /\ \A r \in Requests :
        (Done(r) /\ task[r].body = "malformed") =>
            /\ task[r].resp.status = 400
            /\ task[r].resp.text = ValidationMessage
            /\ ~Invoked(r)
            /\ task[r].session = NoSession
            /\ task[r].eid = <<>>
            /\ task[r].fault = <<>>
            /\ TextsOf(stderr, r) = <<>>
    /\ uuids = Cardinality({ r \in Requests : task[r].eid # <<>> })
    /\ \A r \in Requests : (pc[r] = "parse") => ~Invoked(r)

C10_Witness ==
    \E r1, r2 \in Requests :
        /\ Done(r1) /\ task[r1].body = "malformed" /\ task[r1].resp.status = 400
        /\ RegisteredPath(task[r1].path)
        /\ Failed(r2) /\ uuids = (IF traceback THEN 0 ELSE 1)

----------------------------------------------------------------------------
(* C11, under SpecStartup *)

\* The entry is a well-formed plugin: a .py module that loads and whose
\* register() returns its handler entry.
WellFormed(entry) == EndsWith(entry.file, Str_py) /\ entry.kind = "registers"

Entries(listing) == {listing[i] : i \in DOMAIN listing}

\* C11: for any content of the endpoint directory startup completes (it is
\* never aborted), and once the server serves, every well-formed module of
\* the directory is registered under its base name, whatever malformed
\* plugins stand beside it.
C11_BestEffort ==
    /\ startup.status # "aborted"
    /\ startup.status = "serving" =>
          \A entry \in Entries(startup.listing) :
              WellFormed(entry) =>
                  /\ HasHandler(DropLast(entry.file, 3))
                  /\ handlers[DropLast(entry.file, 3)] = Register(DropLast(entry.file, 3))

----------------------------------------------------------------------------
(* C13, under SpecCleanup *)

\* The handler of request r raised a fault of its own.
HandlerFaulted(r) == \E fault \in HandlerFaults : task[r].fault = fault.formatted

\* C13: a handler fault is reported through its normal path even when the
\* release of the storage handle fails while the fault is handled: the
\* request ends with the status-500 response of the active disclosure mode,
\* and when disclosure is disabled its lines are on stderr under the id of
\* the response.
C13_FaultStillReported ==
    \A r \in Requests :
        HandlerFaulted(r) =>
            /\ Done(r)
            /\ task[r].resp.status = 500
            /\ traceback =>
                  task[r].resp.text = DisclosedResponse(Headers, Join(task[r].fault, NL)).text
            /\ ~traceback =>
                  /\ task[r].resp = OpaqueResponse(Headers, task[r].eid)
                  /\ TextsOf(stderr, r) =
                        JournalWrites(task[r].path, task[r].eid, Join(task[r].fault, NL))

----------------------------------------------------------------------------
(* C16, under Spec *)

\* The positions of stderr written for request r.
PositionsOf(r) == {i \in DOMAIN stderr : stderr[i].request = r}

\* C16: with disclosure disabled, the writes made to stderr for a request
\* whose handler invocation raised stand at consecutive positions of the
\* stream, none of another request between them, and are the header and the
\* traceback lines of that request in traceback order, however the failing
\* requests interleave.
C16_OneBlock ==
    \A r \in Requests :
        (Failed(r) /\ ~traceback) =>
            LET writes == JournalWrites(task[r].path, task[r].eid, Join(task[r].fault, NL)) IN
            \E p \in DOMAIN stderr :
                /\ PositionsOf(r) = p..(p + Len(writes) - 1)
                /\ \A i \in DOMAIN writes : stderr[p + i - 1].text = writes[i]

\* Two requests failed while both were in flight: the one accepted first
\* drew the second error id.
C16_Witness ==
    /\ ~traceback
    /\ NumReq >= 2
    /\ Failed(1) /\ Failed(2)
    /\ task[2].eid = Uuid4(1) /\ task[1].eid = Uuid4(2)
    /\ task[1].fault # task[2].fault

----------------------------------------------------------------------------
(* C15, under SpecFair *)

\* Request r was accepted and has no response yet.
InFlight(r) == pc[r] \in {"parse", "session", "exec"}

----------------------------------------------------------------------------
(* C12, under Spec *)

\* C12: a request is in flight only when the server serves, and whenever it
\* serves, whatever requests have run (successful, failing, not found,
\* malformed), every file of the directory has been loaded and the registry
\* holds exactly the names and entries that startup put there.
C12_RegistryFixed ==
    /\ (\E r \in Requests : pc[r] # "idle") => startup.status = "serving"
    /\ startup.status = "serving" =>
          /\ startup.pending = <<>>
          /\ handlers = LoadEndpoints

\* Served: one request failed in its handler and another was not found.
C12_Witness ==
    /\ startup.status = "serving"
    /\ \E r1, r2 \in Requests :
        /\ Failed(r1)
        /\ Done(r2) /\ task[r2].resp.status = 404 /\ ~RegisteredPath(task[r2].path)

----------------------------------------------------------------------------
(* The repository endpoint: C14, C17, C18, C19, C20, under SpecRepo *)

\* process was called for request r: its session and input fields are set.
Processing(r) == pc[r] \in {"exec", "done"} /\ proc[r].at # "idle"

\* Entry what stands in the trace of request r.
Did(r, what) == \E i \in DOMAIN proc[r].trace : proc[r].trace[i] = what

\* first stands in the trace of request r before every later.
Before(r, first, later) ==
    \A j \in DOMAIN proc[r].trace :
        proc[r].trace[j] = later => \E i \in 1..(j - 1) : proc[r].trace[i] = first

\* json.dumps(..., indent=2) of the answer to a caller who is not logged in.
NotLoggedInText ==
    << "{", NL,
       " ", " ", "\"", "okay", "\"", ":", " ", "false", ",", NL,
       " ", " ", "\"", "message", "\"", ":", " ", "\"",
       "You need to be logged in to access this end point", "\"", NL,
       "}" >>

\* C14: a request to the repository endpoint whose session carries no
\* credentials is answered at once, whatever its input fields, with status
\* 200 and the JSON text of {"okay": false, "message": "You need to be
\* logged in to access this end point"}, and process has done nothing
\* outside.
C14_NotLoggedIn ==
    \A r \in Requests :
        (Processing(r) /\ task[r].session.credentials = NoCredentials) =>
            /\ Done(r)
            /\ task[r].resp.status = 200
            /\ task[r].resp.text = NotLoggedInText
            /\ proc[r].trace = <<>>

\* Two callers without credentials were answered: one asked for a private
\* creation, the other for a deletion.
C14_Witness ==
    \E r1, r2 \in Requests :
        /\ Done(r1) /\ task[r1].session.credentials = NoCredentials
        /\ proc[r1].indata.action = "create" /\ proc[r1].indata.private
        /\ Done(r2) /\ task[r2].session.credentials = NoCredentials
        /\ proc[r2].indata.action = "delete"

\* C17: GitHub is asked to create a repository only for a session with
\* credentials and a name the pattern matches, held by an admin, or by a
\* member asking for board, members or foundation, or by someone whose uid
\* is in the non-empty PMC list LDAP holds for the project; and for a
\* private repository only by an admin.
C17_Authorised ==
    \A r \in Requests :
        (Processing(r) /\ Did(r, "github")) =>
            LET c == task[r].session.credentials
                d == proc[r].indata
                m == ReMatch(d.repository)
            IN /\ c # NoCredentials
               /\ d.action = "create"
               /\ m.matched
               /\ \/ c.admin
                  \/ c.member /\ m.pmc \in EXEC_ADDITIONAL_PROJECTS
                  \/ PmcMembers(m.pmc) # {} /\ c.uid \in PmcMembers(m.pmc)
               /\ d.private => c.admin

\* GitHub was asked for a committer whom LDAP lists, and for an admin's
\* private repository.
C17_Witness ==
    \E r1, r2 \in Requests :
        /\ Did(r1, "github") /\ Did(r1, "ldap")
        /\ task[r1].session.credentials.uid = "dev"
        /\ Did(r2, "github") /\ proc[r2].indata.private
        /\ task[r2].session.credentials.admin

\* The result of request r says okay false.
SaysNotOkay(r) ==
    /\ task[r].output.type = "dict"
    /\ Len(task[r].output.items) > 0
    /\ task[r].output.items[1].value = Bool(<<"false">>)

\* C18: in every state of a creation, the clone was started only after
\* GitHub answered 201 to the creation call, the config was appended and the
\* mail sent only after the clone exited with 0, the mail at most once;
\* "Repository created!" is returned only after the mail, and no result with
\* okay false comes after a mail.
C18_Ordered ==
    \A r \in Requests :
        Processing(r) =>
            /\ Before(r, "github", Answer("github", 201))
            /\ Before(r, Answer("github", 201), "clone")
            /\ Before(r, "clone", Answer("clone", 0))
            /\ Before(r, Answer("clone", 0), "config")
            /\ Before(r, "config", "mail")
            /\ Cardinality({i \in DOMAIN proc[r].trace : proc[r].trace[i] = "mail"}) <= 1
            /\ (Done(r) /\ task[r].output = Created) => Did(r, "mail")
            /\ (Done(r) /\ SaysNotOkay(r)) => ~Did(r, "mail")

\* One creation went through to "Repository created!", another stopped at a
\* clone that failed.
C18_Witness ==
    \E r1, r2 \in Requests :
        /\ Done(r1) /\ task[r1].output = Created /\ task[r1].resp.status = 200
        /\ Done(r2) /\ task[r2].output = CloneFailed /\ Did(r2, Answer("clone", 1))

\* C19: a creation answered with "A repository by that name already exists"
\* has created no project directory, written no gitweb or htaccess file,
\* reloaded Apache not, and not called GitHub, in every interleaving.
C19_NoEffectBefore ==
    \A r \in Requests :
        (Done(r) /\ task[r].output = AlreadyExists) =>
            \A what \in {"mkdir", "write_gitweb", "write_htaccess", "reload", "github"} :
                ~Did(r, what)

\* C20: a request from a session with credentials whose action is missing
\* or is not "create" is answered at once: process has done nothing outside
\* and returned nothing, and the response is 404 "Content not found".
C20_NotCreate ==
    \A r \in Requests :
        (Processing(r) /\ task[r].session.credentials # NoCredentials
            /\ proc[r].indata.action # "create") =>
            /\ Done(r)
            /\ proc[r].trace = <<>>
            /\ task[r].output = PyNone
            /\ task[r].resp.status = 404
            /\ task[r].resp.text = <<"Content not found">>

\* A logged-in caller sent no action, another asked for a deletion.
C20_Witness ==
    \E r1, r2 \in Requests :
        /\ Done(r1) /\ task[r1].session.credentials.uid = "dev"
        /\ proc[r1].indata.action = None
        /\ Done(r2) /\ task[r2].session.credentials.admin
        /\ proc[r2].indata.action = "delete"

====
